---- MODULE Spec2Model ----
(***************************************************************************)
(* Model of the download_documents management command                      *)
(* (src/download_documents.py): one run of Command.handle, from the parsed *)
(* options to the last message written to stdout.                          *)
(*                                                                         *)
(* Strings that the code takes apart (storage keys, file names) are        *)
(* sequences of one-character strings.  A date argument is the sequence of *)
(* its '-'-separated numeric fields, the empty sequence being the empty    *)
(* string.  An optional argument is a record whose field `given` is FALSE  *)
(* for Python's None.                                                      *)
(***************************************************************************)
EXTENDS Integers, Sequences, FiniteSets, TLC

\* ------------------------------------------------------------------ bounds

\* --limit ranges over None, -1 and 0..MaxLimit.
MaxLimit == 2
\* A creation time is a calendar date and a tick 0..TicksPerDay-1 within it.
TicksPerDay == 2

\* ----------------------------------------------------------------- strings

Digits == <<"0", "1", "2", "3", "4", "5", "6", "7", "8", "9">>

\* str(n) of a non-negative integer, as the f-string formats the counter.
RECURSIVE IntToStr(_)
IntToStr(n) ==
    IF n < 10 THEN <<Digits[n + 1]>>
    ELSE IntToStr(n \div 10) \o <<Digits[(n % 10) + 1]>>

\* str.rfind(c) + 1: the last position of c in s, 0 when absent.
LastIndexOf(s, c) ==
    LET hits == {i \in 1..Len(s) : s[i] = c}
    IN  IF hits = {} THEN 0 ELSE CHOOSE i \in hits : \A j \in hits : j <= i

\* os.path.basename: what follows the last '/'.
Basename(p) == SubSeq(p, LastIndexOf(p, "/") + 1, Len(p))

\* os.path.splitext: the extension starts at the last '.', unless only dots
\* (or nothing) stand between the last '/' and it.
SplitExt(p) ==
    LET sep == LastIndexOf(p, "/")
        dot == LastIndexOf(p, ".")
    IN  IF dot > sep /\ \E i \in (sep + 1)..(dot - 1) : p[i] # "."
        THEN <<SubSeq(p, 1, dot - 1), SubSeq(p, dot, Len(p))>>
        ELSE <<p, <<>>>>

\* f"{base}_{counter}{ext}"
Suffixed(base, counter, ext) == base \o <<"_">> \o IntToStr(counter) \o ext

\* The while loop shared by get_unique_filename and get_unique_filepath:
\* `present` answers the membership test of the loop condition.
RECURSIVE UniqueLoop(_, _, _, _, _)
UniqueLoop(present, base, ext, counter, unique_name) ==
    IF unique_name \in present
    THEN UniqueLoop(present, base, ext, counter + 1, Suffixed(base, counter, ext))
    ELSE unique_name

\* ------------------------------------------------------------------ dates

IsLeap(y) == (y % 4 = 0 /\ y % 100 # 0) \/ y % 400 = 0

DaysInMonth(y, m) ==
    IF m = 2 THEN (IF IsLeap(y) THEN 29 ELSE 28)
    ELSE IF m \in {4, 6, 9, 11} THEN 30 ELSE 31

\* datetime.strptime(s, "%Y-%m-%d") raises ValueError unless s has three
\* fields that name a day of the calendar.
StrptimeOk(fields) ==
    /\ Len(fields) = 3
    /\ fields[1] \in 1..9999
    /\ fields[2] \in 1..12
    /\ fields[3] \in 1..DaysInMonth(fields[1], fields[2])

\* Days are numbered in calendar order (every month given 31 slots).
DayNumber(date) == (date[1] * 12 + (date[2] - 1)) * 31 + date[3]

\* A point in time: tick `tick` of calendar day `date`.
Stamp(date, tick) == DayNumber(date) * TicksPerDay + tick

\* make_aware(datetime.strptime(s, "%Y-%m-%d")): midnight opening that day.
Midnight(fields) == Stamp(fields, 0)

\* `if start_date:` / `if end_date:` / `if limit:` : Python truthiness.
StrTruthy(arg) == arg.given /\ arg.fields # <<>>
IntTruthy(arg) == arg.given /\ arg.n # 0

\* ------------------------------------------------- the records and the store

Jan1 == <<2024, 1, 1>>
Jan2 == <<2024, 1, 2>>
Jan3 == <<2024, 1, 3>>

\* The UserDocuments table the run reads: type, file.name (has_file FALSE is
\* a NULL file), created_date, and ContentLength of the stored object.
\* Records 1 and 2 share a base name, record 3 is named like a suffixed
\* duplicate, record 2 was created at midnight, record 3 on the last tick of
\* the same day.
UserDocuments ==
    <<[type |-> "id_card", has_file |-> TRUE,
       name |-> <<"u", "/", "a", ".", "x">>, date |-> Jan1, tick |-> 1, size |-> 1],
      [type |-> "id_card", has_file |-> TRUE,
       name |-> <<"v", "/", "a", ".", "x">>, date |-> Jan2, tick |-> 0, size |-> 2],
      [type |-> "id_card", has_file |-> TRUE,
       name |-> <<"a", "_", "1", ".", "x">>, date |-> Jan2,
       tick |-> TicksPerDay - 1, size |-> 1],
      [type |-> "id_card", has_file |-> FALSE,
       name |-> <<>>, date |-> Jan1, tick |-> 0, size |-> 0],
      [type |-> "selfie", has_file |-> TRUE,
       name |-> <<"s", "/", "a", ".", "x">>, date |-> Jan2, tick |-> 1, size |-> 1],
      [type |-> "selfie", has_file |-> TRUE,
       name |-> <<"b">>, date |-> Jan3, tick |-> 0, size |-> 1]>>

DocIds == DOMAIN UserDocuments

created_date(d) == Stamp(UserDocuments[d].date, UserDocuments[d].tick)

DocTypes == {"id_card", "selfie"}

\* Content of a file or archive entry: the record it was fetched for (0 for
\* content that was there before the run) and whether the fetch finished.
PreData == [doc |-> 0, part |-> "pre"]
Full(d) == [doc |-> d, part |-> "full"]
Partial(d) == [doc |-> d, part |-> "partial"]

NameA == <<"a", ".", "x">>
NameA1 == <<"a", "_", "1", ".", "x">>
NameSubB == <<"s", "u", "b", "/", "b", ".", "x">>
NameOld == <<"o", "l", "d">>

NoDir == [exists |-> FALSE, files |-> {}]
NoZip == [exists |-> FALSE, entries |-> {}]
DirOf(names) == [exists |-> TRUE, files |-> {[name |-> n, data |-> PreData] : n \in names}]
ZipOf(names) == [exists |-> TRUE, entries |-> {[name |-> n, data |-> PreData] : n \in names}]

\* What ~/Desktop may hold before the run: the per-type folders
\* (~/Desktop/<type>s) and archives (~/Desktop/<type>s.zip).
Desktops ==
    { [folder |-> [t \in DocTypes |-> NoDir], zip |-> [t \in DocTypes |-> NoZip]],
      [folder |-> [t \in DocTypes |->
                     IF t = "id_card" THEN DirOf({NameA, NameSubB}) ELSE DirOf({NameA})],
       zip |-> [t \in DocTypes |->
                     IF t = "id_card" THEN ZipOf({NameA}) ELSE ZipOf({NameOld})]],
      [folder |-> [t \in DocTypes |->
                     IF t = "id_card" THEN DirOf({NameA1}) ELSE DirOf({})],
       zip |-> [t \in DocTypes |-> NoZip]] }

\* ---------------------------------------------------------------- arguments

NoStr == [given |-> FALSE, fields |-> <<>>]
Str(fields) == [given |-> TRUE, fields |-> fields]
NoInt == [given |-> FALSE, n |-> 0]
Int1(n) == [given |-> TRUE, n |-> n]

\* --start-date / --end-date: absent, empty, a date, not a date.
StartDates == {NoStr, Str(<<>>), Str(Jan2), Str(Jan3), Str(<<2024, 1>>)}
EndDates == {NoStr, Str(<<>>), Str(Jan1), Str(Jan2), Str(<<2024, 2, 30>>)}

\* --limit: type=int, default None.
Limits == {NoInt} \cup {Int1(n) : n \in -1..MaxLimit}

\* --zip and --zip-with-folder are mutually exclusive store_true flags.
Modes == {[zip |-> FALSE, zip_with_folder |-> FALSE],
          [zip |-> TRUE, zip_with_folder |-> FALSE],
          [zip |-> FALSE, zip_with_folder |-> TRUE]}

Options ==
    [type : {"id_card", "selfie", "both"}, limit : Limits, mode : Modes,
     start_date : StartDates, end_date : EndDates]

\* -------------------------------------------------------------------- state

VARIABLES
    options,      \* the parsed command line
    folder,       \* ~/Desktop/<type>s per type: [exists, files]
    zip,          \* ~/Desktop/<type>s.zip per type: [exists, entries]
    pc,           \* where the run stands
    filters,      \* the created_date filters built from the dates
    s3,           \* TRUE once boto3.client has been created
    types,        \* types_to_process
    pass,         \* index into types of the pass under way
    docs,         \* records of the queryset not yet probed
    total_size,   \* sum of the probed ContentLengths
    s3_keys,      \* the download set: <<[doc, key, filename], ...>>
    pending,      \* the part of s3_keys not yet downloaded
    pbar,         \* the tqdm meter: [state, total, n]
    zipf,         \* the type whose archive is open for writing, or "none"
    walk,         \* files of os.walk(destination) not yet archived
    log,          \* what was written to stdout: [style, msg, dtype, doc]
    \* What happened, kept to state the properties:
    folder0,      \* folder as the run found it
    zip0,         \* zip as the run found it
    selected,     \* per type, the records the queryset yielded, in order
    probed,       \* per type, the records head_object was called for, in order
    fetched,      \* per type, the records download_fileobj was called for
    failed,       \* [doc, stage, exc] of every exception an item handler caught
    uniq,         \* every de-duplication call: [dtype, dest, filename, unique, present]
    raised        \* what ended the run early: "none", "date", "limit",
                  \* "archive", "item" or "interrupt"

vars ==
    <<options, folder, zip, pc, filters, s3, types, pass, docs, total_size,
      s3_keys, pending, pbar, zipf, walk, log, folder0, zip0, selected, probed,
      fetched, failed, uniq, raised>>

inputs == <<options, folder0, zip0>>
passVars == <<docs, total_size, s3_keys, pending, walk>>
diskVars == <<folder, zip>>
history == <<selected, probed, fetched, failed, uniq>>

Msg(style, msg, dtype, doc) == [style |-> style, msg |-> msg, dtype |-> dtype, doc |-> doc]

NoFilters == [has_gte |-> FALSE, gte |-> 0, has_lte |-> FALSE, lte |-> 0]
NoBar == [state |-> "none", total |-> 0, n |-> 0]

\* Every command line is run against an empty Desktop; content found on the
\* Desktop is combined with every type, mode and limit of an undated run.
Init ==
    /\ options \in Options
    /\ \E desk \in Desktops :
          /\ folder = desk.folder
          /\ zip = desk.zip
          /\ \/ desk.folder = [t \in DocTypes |-> NoDir]
             \/ options.start_date = NoStr /\ options.end_date = NoStr
    /\ folder0 = folder
    /\ zip0 = zip
    /\ pc = "parse"
    /\ filters = NoFilters
    /\ s3 = FALSE
    /\ types = <<>>
    /\ pass = 0
    /\ docs = <<>>
    /\ total_size = 0
    /\ s3_keys = <<>>
    /\ pending = <<>>
    /\ pbar = NoBar
    /\ zipf = "none"
    /\ walk = {}
    /\ log = {}
    /\ selected = [t \in DocTypes |-> <<>>]
    /\ probed = [t \in DocTypes |-> <<>>]
    /\ fetched = [t \in DocTypes |-> <<>>]
    /\ failed = {}
    /\ uniq = {}
    /\ raised = "none"

\* ------------------------------------------------------- exception handling

\* What a call into the storage service or the filesystem can do: return, or
\* raise an Exception (ClientError, OSError, ...), or be cut by CTRL+C.
Outcomes == {"ok", "Exception", "KeyboardInterrupt"}

\* `except Exception as e:` around one item.
ItemHandlerCatchesAll(exc) == exc \in {"Exception", "KeyboardInterrupt"}
ItemHandlerCatchesNone(exc) == FALSE
ItemHandlerCatches(exc) == exc = "Exception"

\* Command.handle's two except clauses.
HandleMsg(exc) ==
    IF exc = "KeyboardInterrupt"
    THEN Msg("WARNING", "interrupted", "-", 0)
    ELSE Msg("ERROR", "error_occurred", "-", 0)

\* An exception leaving download_documents: `finally: pbar.close()`, the
\* exits of the two `with` blocks, then handle's clause.
Propagate(exc, cause, said) ==
    /\ pbar' = IF pbar.state = "open" THEN [pbar EXCEPT !.state = "closed"] ELSE pbar
    /\ zipf' = "none"
    /\ log' = log \cup said \cup {HandleMsg(exc)}
    /\ raised' = cause
    /\ pc' = "done"

WhyRaised(exc) == IF exc = "KeyboardInterrupt" THEN "interrupt" ELSE "item"

\* ------------------------------------------------------------ date parsing

\* The try block of lines 80-90: ValueError from either strptime.
DatesRaiseStartOnly(o) == StrTruthy(o.start_date) /\ ~StrptimeOk(o.start_date.fields)
DatesRaise(o) ==
    \/ StrTruthy(o.start_date) /\ ~StrptimeOk(o.start_date.fields)
    \/ StrTruthy(o.end_date) /\ ~StrptimeOk(o.end_date.fields)

BuildFilters(o) ==
    [has_gte |-> StrTruthy(o.start_date),
     gte |-> IF StrTruthy(o.start_date) THEN Midnight(o.start_date.fields) ELSE 0,
     has_lte |-> StrTruthy(o.end_date),
     lte |-> IF StrTruthy(o.end_date) THEN Midnight(o.end_date.fields) ELSE 0]

ParseDates ==
    /\ pc = "parse"
    /\ IF DatesRaise(options)
       THEN /\ log' = log \cup {Msg("ERROR", "invalid_date", "-", 0)}
            /\ raised' = "date"
            /\ pc' = "done"
            /\ UNCHANGED filters
       ELSE /\ filters' = BuildFilters(options)
            /\ pc' = "setup"
            /\ UNCHANGED <<log, raised>>
    /\ UNCHANGED <<inputs, diskVars, passVars, history, s3, types, pass, pbar, zipf>>

\* types_to_process and the boto3 client (lines 92-101).
SetupClient ==
    /\ pc = "setup"
    /\ types' = IF options.type = "both" THEN <<"id_card", "selfie">> ELSE <<options.type>>
    /\ s3' = TRUE
    /\ pass' = 1
    /\ pc' = "pass"
    /\ UNCHANGED <<inputs, diskVars, passVars, history, filters, pbar, zipf, log, raised>>

\* ---------------------------------------------------------------- the query

\* UserDocuments.objects.filter(type=dtype, file__isnull=False, **filters)
Matches(d, dtype, f) ==
    /\ UserDocuments[d].type = dtype
    /\ UserDocuments[d].has_file
    /\ f.has_gte => created_date(d) >= f.gte
    /\ f.has_lte => created_date(d) <= f.lte

\* .order_by("created_date"): any order of the rows that is ascending in
\* created_date (rows of equal created_date come in an order the database picks).
OrderBy(S) ==
    {q \in [1..Cardinality(S) -> S] :
        /\ \A i, j \in DOMAIN q : i # j => q[i] # q[j]
        /\ \A i, j \in DOMAIN q : i < j => created_date(q[i]) <= created_date(q[j])}

Min(a, b) == IF a < b THEN a ELSE b

\* `if limit: docs = docs[:limit]` for a limit >= 0.
SlicedOffByOne(rows, limit) ==
    IF IntTruthy(limit) THEN SubSeq(rows, 1, Min(limit.n + 1, Len(rows))) ELSE rows
Sliced(rows, limit) ==
    IF IntTruthy(limit) THEN SubSeq(rows, 1, Min(limit.n, Len(rows))) ELSE rows

\* QuerySet.__getitem__ refuses a negative bound ("Negative indexing is not
\* supported."), an exception no clause of download_documents catches.
SliceRaises(limit) == IntTruthy(limit) /\ limit.n < 0

\* The head of the per-type loop (lines 103-113).
StartPass ==
    /\ pc = "pass"
    /\ pass <= Len(types)
    /\ LET dtype == types[pass]
           said == {Msg("NOTICE", "processing", dtype, 0)}
       IN  IF SliceRaises(options.limit)
           THEN /\ Propagate("Exception", "limit", said)
                /\ UNCHANGED <<passVars, selected>>
           ELSE /\ \E rows \in OrderBy({d \in DocIds : Matches(d, dtype, filters)}) :
                      /\ docs' = Sliced(rows, options.limit)
                      /\ selected' = [selected EXCEPT ![dtype] = Sliced(rows, options.limit)]
                /\ total_size' = 0
                /\ s3_keys' = <<>>
                /\ log' = log \cup said
                /\ pc' = "probe"
                /\ UNCHANGED <<pending, walk, pbar, zipf, raised>>
    /\ UNCHANGED <<inputs, diskVars, filters, s3, types, pass, probed, fetched, failed, uniq>>

\* The per-type loop is exhausted: download_documents returns.
Return ==
    /\ pc = "pass"
    /\ pass > Len(types)
    /\ pc' = "done"
    /\ UNCHANGED <<inputs, diskVars, passVars, history, filters, s3, types, pass,
                   pbar, zipf, log, raised>>

\* ---------------------------------------------------------------- the probe

\* One turn of the size loop (lines 114-120).
Probe ==
    /\ pc = "probe"
    /\ docs # <<>>
    /\ LET d == Head(docs)
           dtype == types[pass]
       IN  /\ probed' = [probed EXCEPT ![dtype] = Append(@, d)]
           /\ \E r \in Outcomes :
                 CASE r = "ok" ->
                        /\ total_size' = total_size + UserDocuments[d].size
                        /\ s3_keys' = Append(s3_keys,
                              [doc |-> d, key |-> UserDocuments[d].name,
                               filename |-> Basename(UserDocuments[d].name)])
                        /\ docs' = Tail(docs)
                        /\ UNCHANGED <<failed, log, pbar, zipf, raised, pc>>
                   [] r # "ok" /\ ItemHandlerCatches(r) ->
                        /\ failed' = failed \cup {[doc |-> d, stage |-> "probe", exc |-> r]}
                        /\ log' = log \cup {Msg("ERROR", "size_error", dtype, d)}
                        /\ docs' = Tail(docs)
                        /\ UNCHANGED <<total_size, s3_keys, pbar, zipf, raised, pc>>
                   [] OTHER ->
                        /\ Propagate(r, WhyRaised(r), {})
                        /\ UNCHANGED <<total_size, s3_keys, docs, failed>>
    /\ UNCHANGED <<inputs, diskVars, filters, s3, types, pass, pending, walk,
                   selected, fetched, uniq>>

\* ------------------------------------------------------------- de-duplication

\* zipf.namelist()
Namelist(z) == {e.name : e \in z.entries}

\* The paths under the folder for which os.path.exists holds: its files and
\* the directories above them.
DirsAbove(name) == {SubSeq(name, 1, i - 1) : i \in {k \in 1..Len(name) : name[k] = "/"}}
ExistingPaths(dir) ==
    {f.name : f \in dir.files} \cup UNION {DirsAbove(f.name) : f \in dir.files}

GetUniqueNoCheck(present, filename) == filename
GetUnique(present, filename) ==
    UniqueLoop(present, SplitExt(filename)[1], SplitExt(filename)[2], 1, filename)

\* get_unique_filename(zipf, filename)
get_unique_filename(z, filename) == GetUnique(Namelist(z), filename)

\* get_unique_filepath(folder, filename), as the path relative to the folder.
get_unique_filepath(dir, filename) == GetUnique(ExistingPaths(dir), filename)

\* ------------------------------------------------------------- the transfer

\* zipfile.ZipFile(zip_path, "w", ...): the file is created, or truncated.
ZipFileW(z) == [exists |-> TRUE, entries |-> {}]

\* open(local_path, "wb") followed by writes: the file holds `data` alone.
WriteFile(dir, name, data) ==
    [dir EXCEPT !.files = {f \in @ : f.name # name} \cup {[name |-> name, data |-> data]}]

\* zipf.writestr / zipf.write: one more entry.
AddEntry(z, name, data) ==
    [z EXCEPT !.entries = @ \cup {[name |-> name, data |-> data]}]

\* `if zip_file:` picks the branch of line 136; the else branch is the folder.
IntoZipAlways(o) == TRUE
IntoZip(o) == o.mode.zip

\* `if zip_with_folder:` of line 159.
AlsoArchive(o) == o.mode.zip_with_folder

\* `if not s3_keys:` (lines 122-124).
NoFiles ==
    /\ pc = "probe"
    /\ docs = <<>>
    /\ s3_keys = <<>>
    /\ log' = log \cup {Msg("WARNING", "no_valid", types[pass], 0)}
    /\ pass' = pass + 1
    /\ pc' = "pass"
    /\ UNCHANGED <<inputs, diskVars, passVars, history, filters, s3, types, pbar,
                   zipf, raised>>

\* Lines 126-137: the announcement, os.makedirs(destination, exist_ok=True),
\* the meter, and in zip-only mode the archive opened for writing.
StartTransfer ==
    /\ pc = "probe"
    /\ docs = <<>>
    /\ s3_keys # <<>>
    /\ LET dtype == types[pass]
       IN  /\ log' = log \cup {Msg("SUCCESS", "started", dtype, Len(s3_keys))}
           /\ folder' = [folder EXCEPT ![dtype].exists = TRUE]
           /\ pbar' = [state |-> "open", total |-> total_size, n |-> 0]
           /\ pending' = s3_keys
           /\ IF IntoZip(options)
              THEN /\ zip' = [zip EXCEPT ![dtype] = ZipFileW(@)]
                   /\ zipf' = dtype
                   /\ pc' = "zip"
              ELSE /\ pc' = "folder"
                   /\ UNCHANGED <<zip, zipf>>
    /\ UNCHANGED <<inputs, history, filters, s3, types, pass, docs, total_size,
                   s3_keys, walk, raised>>

\* One turn of the zip-only loop (lines 138-146): `fetch` is what
\* download_fileobj into the temporary file does, `write` what writestr does.
ZipItem ==
    /\ pc = "zip"
    /\ pending # <<>>
    /\ LET item == Head(pending)
           dtype == types[pass]
           unique_name == get_unique_filename(zip[dtype], item.filename)
           call == [dtype |-> dtype, dest |-> "zip", filename |-> item.filename,
                    unique |-> unique_name, present |-> Namelist(zip[dtype])]
       IN  /\ fetched' = [fetched EXCEPT ![dtype] = Append(@, item.doc)]
           /\ \E fetch \in Outcomes, write \in Outcomes :
                 CASE fetch = "ok" /\ write = "ok" ->
                        /\ zip' = [zip EXCEPT ![dtype] = AddEntry(@, unique_name, Full(item.doc))]
                        /\ uniq' = uniq \cup {call}
                        /\ pbar' = [pbar EXCEPT !.n = @ + UserDocuments[item.doc].size]
                        /\ pending' = Tail(pending)
                        /\ UNCHANGED <<failed, log, zipf, raised, pc>>
                   [] fetch = "ok" /\ write # "ok" /\ ItemHandlerCatches(write) ->
                        /\ failed' = failed \cup {[doc |-> item.doc, stage |-> "write", exc |-> write]}
                        /\ log' = log \cup {Msg("ERROR", "zip_add_failed", dtype, item.doc)}
                        /\ pbar' = [pbar EXCEPT !.n = @ + UserDocuments[item.doc].size]
                        /\ pending' = Tail(pending)
                        /\ uniq' = uniq \cup {call}
                        /\ UNCHANGED <<zip, zipf, raised, pc>>
                   [] fetch = "ok" /\ write # "ok" /\ ~ItemHandlerCatches(write) ->
                        /\ Propagate(write, WhyRaised(write), {})
                        /\ uniq' = uniq \cup {call}
                        /\ UNCHANGED <<zip, failed, pending>>
                   [] fetch # "ok" /\ write = "ok" /\ ItemHandlerCatches(fetch) ->
                        /\ failed' = failed \cup {[doc |-> item.doc, stage |-> "download", exc |-> fetch]}
                        /\ log' = log \cup {Msg("ERROR", "zip_add_failed", dtype, item.doc)}
                        /\ pending' = Tail(pending)
                        /\ UNCHANGED <<zip, uniq, pbar, zipf, raised, pc>>
                   [] fetch # "ok" /\ write = "ok" /\ ~ItemHandlerCatches(fetch) ->
                        /\ Propagate(fetch, WhyRaised(fetch), {})
                        /\ UNCHANGED <<zip, uniq, failed, pending>>
                   [] OTHER -> FALSE
    /\ UNCHANGED <<inputs, folder, filters, s3, types, pass, docs, total_size,
                   s3_keys, walk, selected, probed>>

\* One turn of the folder loop (lines 150-156): `opened` is what
\* open(local_path, "wb") does, `fetch` what download_fileobj into it does.
\* The file exists from the open on, whatever the fetch does.
FolderItem ==
    /\ pc = "folder"
    /\ pending # <<>>
    /\ LET item == Head(pending)
           dtype == types[pass]
           local_path == get_unique_filepath(folder[dtype], item.filename)
           call == [dtype |-> dtype, dest |-> "folder", filename |-> item.filename,
                    unique |-> local_path, present |-> ExistingPaths(folder[dtype])]
       IN  /\ uniq' = uniq \cup {call}
           /\ \E opened \in Outcomes, fetch \in Outcomes :
                 CASE opened = "ok" /\ fetch = "ok" ->
                        /\ folder' = [folder EXCEPT ![dtype] = WriteFile(@, local_path, Full(item.doc))]
                        /\ fetched' = [fetched EXCEPT ![dtype] = Append(@, item.doc)]
                        /\ pbar' = [pbar EXCEPT !.n = @ + UserDocuments[item.doc].size]
                        /\ pending' = Tail(pending)
                        /\ UNCHANGED <<failed, log, zipf, raised, pc>>
                   [] opened = "ok" /\ fetch # "ok" /\ ItemHandlerCatches(fetch) ->
                        /\ folder' = [folder EXCEPT ![dtype] = WriteFile(@, local_path, Partial(item.doc))]
                        /\ fetched' = [fetched EXCEPT ![dtype] = Append(@, item.doc)]
                        /\ failed' = failed \cup {[doc |-> item.doc, stage |-> "download", exc |-> fetch]}
                        /\ log' = log \cup {Msg("ERROR", "download_failed", dtype, item.doc)}
                        /\ pending' = Tail(pending)
                        /\ UNCHANGED <<pbar, zipf, raised, pc>>
                   [] opened = "ok" /\ fetch # "ok" /\ ~ItemHandlerCatches(fetch) ->
                        /\ folder' = [folder EXCEPT ![dtype] = WriteFile(@, local_path, Partial(item.doc))]
                        /\ fetched' = [fetched EXCEPT ![dtype] = Append(@, item.doc)]
                        /\ Propagate(fetch, WhyRaised(fetch), {})
                        /\ UNCHANGED <<failed, pending>>
                   [] opened # "ok" /\ fetch = "ok" /\ ItemHandlerCatches(opened) ->
                        /\ failed' = failed \cup {[doc |-> item.doc, stage |-> "open", exc |-> opened]}
                        /\ log' = log \cup {Msg("ERROR", "download_failed", dtype, item.doc)}
                        /\ pending' = Tail(pending)
                        /\ UNCHANGED <<folder, fetched, pbar, zipf, raised, pc>>
                   [] opened # "ok" /\ fetch = "ok" /\ ~ItemHandlerCatches(opened) ->
                        /\ Propagate(opened, WhyRaised(opened), {})
                        /\ UNCHANGED <<folder, fetched, failed, pending>>
                   [] OTHER -> FALSE
    /\ UNCHANGED <<inputs, zip, filters, s3, types, pass, docs, total_size,
                   s3_keys, walk, selected, probed>>

\* Lines 159-161: the archive of zip-with-folder mode is opened for writing
\* and os.walk lists the folder.
OpenArchive ==
    /\ pc = "folder"
    /\ pending = <<>>
    /\ AlsoArchive(options)
    /\ LET dtype == types[pass]
       IN  /\ zip' = [zip EXCEPT ![dtype] = ZipFileW(@)]
           /\ zipf' = dtype
           /\ walk' = folder[dtype].files
    /\ pc' = "archive"
    /\ UNCHANGED <<inputs, folder, history, filters, s3, types, pass, docs,
                   total_size, s3_keys, pending, pbar, log, raised>>

\* One zipf.write(full_path, arcname) of lines 162-165, in the order os.walk
\* happens to list the files.  No handler stands around it.
ArchiveItem ==
    /\ pc = "archive"
    /\ \E f \in walk, r \in Outcomes :
          LET dtype == types[pass]
          IN  IF r = "ok"
              THEN /\ zip' = [zip EXCEPT ![dtype] = AddEntry(@, f.name, f.data)]
                   /\ walk' = walk \ {f}
                   /\ UNCHANGED <<pbar, zipf, log, raised, pc>>
              ELSE /\ Propagate(r, IF r = "KeyboardInterrupt" THEN "interrupt" ELSE "archive", {})
                   /\ UNCHANGED <<zip, walk>>
    /\ UNCHANGED <<inputs, folder, history, filters, s3, types, pass, docs,
                   total_size, s3_keys, pending>>

\* The transfer block is left normally (lines 166-173): the archive and the
\* meter are closed, completion and the output location are reported.
EndPass ==
    /\ \/ pc = "zip" /\ pending = <<>>
       \/ pc = "folder" /\ pending = <<>> /\ ~AlsoArchive(options)
       \/ pc = "archive" /\ walk = {}
    /\ LET dtype == types[pass]
       IN  log' = log \cup
                {Msg("SUCCESS", "complete", dtype, 0),
                 IF IntoZip(options)
                 THEN Msg("SUCCESS", "zip_created", dtype, 0)
                 ELSE Msg("SUCCESS", "folder_created", dtype, 0)}
    /\ pbar' = [pbar EXCEPT !.state = "closed"]
    /\ zipf' = "none"
    /\ pass' = pass + 1
    /\ pc' = "pass"
    /\ UNCHANGED <<inputs, diskVars, passVars, history, filters, s3, types, raised>>

Next ==
    \/ ParseDates
    \/ SetupClient
    \/ StartPass
    \/ Return
    \/ Probe
    \/ NoFiles
    \/ StartTransfer
    \/ ZipItem
    \/ FolderItem
    \/ OpenArchive
    \/ ArchiveItem
    \/ EndPass

Spec == Init /\ [][Next]_vars

\* --------------------------------------------------------------- properties

Elems(q) == {q[i] : i \in DOMAIN q}

Said(style, msg, dtype) == \E m \in log : m.style = style /\ m.msg = msg /\ m.dtype = dtype

Processing(t) == Said("NOTICE", "processing", t)
Complete(t) == Said("SUCCESS", "complete", t)
NoValid(t) == Said("WARNING", "no_valid", t)

\* The types the command line asks for.
Requested == IF options.type = "both" THEN DocTypes ELSE {options.type}

\* C1: a run never deletes or overwrites what its output locations already
\* held: every file that was in a per-type folder and every entry that was
\* in a per-type zip file before the run is there, unchanged, at every
\* moment of the run, whatever the mode.
C1_PreExistingContentKept ==
    \A t \in DocTypes :
        /\ folder0[t].files \subseteq folder[t].files
        /\ zip0[t].entries \subseteq zip[t].entries

\* The k-th name of the sequence name.ext, name_1.ext, name_2.ext, ...: the
\* suffix stands before the last dot that has a character other than a dot
\* somewhere before it, and at the end of a name with no such dot.
Candidate(filename, k) ==
    LET dots == {i \in 1..Len(filename) :
                    filename[i] = "." /\ \E j \in 1..(i - 1) : filename[j] # "."}
        cut == IF dots = {} THEN Len(filename) + 1
               ELSE CHOOSE i \in dots : \A j \in dots : j <= i
    IN  IF k = 0 THEN filename
        ELSE SubSeq(filename, 1, cut - 1) \o <<"_">> \o IntToStr(k)
                 \o SubSeq(filename, cut, Len(filename))

\* C2: every call of get_unique_filepath (folder) and get_unique_filename
\* (zip) returns a name that is not in the destination, namely the first
\* name of name.ext, name_1.ext, name_2.ext, ... (suffix before the
\* extension) that is free; so no archive holds two entries of one name and
\* no folder holds two files of one path.
C2_UniqueNames ==
    /\ \A c \in uniq :
          /\ c.unique \notin c.present
          /\ \E k \in 0..Cardinality(c.present) :
                /\ c.unique = Candidate(c.filename, k)
                /\ \A j \in 0..(k - 1) : Candidate(c.filename, j) \in c.present
    /\ \A t \in DocTypes :
          /\ \A e1, e2 \in zip[t].entries : e1.name = e2.name => e1 = e2
          /\ \A f1, f2 \in folder[t].files : f1.name = f2.name => f1 = f2

\* C2's case: in one folder pass a repeated name has taken name_2.ext and a
\* name that already looks suffixed has collided and been suffixed again.
C2_Witness ==
    \E c1, c2 \in uniq :
        /\ c1.dest = "folder" /\ c2.dest = "folder"
        /\ c1.filename = NameA /\ c1.unique = <<"a", "_", "2", ".", "x">>
        /\ c2.filename = NameA1 /\ c2.unique = <<"a", "_", "1", "_", "1", ".", "x">>

\* C5: the mode decides the artifacts: in zip-only mode the files of the
\* destination folders never change; in folder mode the zip files never
\* change (none is created); in zip-with-folder mode, once a pass has reported
\* completion, the zip of its type holds exactly the files of its folder, by
\* relative path and content.
C5_ArtifactsByMode ==
    /\ options.mode.zip =>
          \A t \in DocTypes : folder[t].files = folder0[t].files
    /\ (~options.mode.zip /\ ~options.mode.zip_with_folder) =>
          \A t \in DocTypes : zip[t] = zip0[t]
    /\ options.mode.zip_with_folder =>
          \A t \in DocTypes :
              Complete(t) =>
                  /\ zip[t].exists
                  /\ zip[t].entries = folder[t].files
                  /\ Namelist(zip[t]) = {f.name : f \in folder[t].files}

\* C5's case: a zip-with-folder pass over a folder that already held files
\* has completed and its zip mirrors the old and the new files.
C5_Witness ==
    /\ options.mode.zip_with_folder
    /\ Complete("id_card")
    /\ folder0["id_card"].files # {}
    /\ zip0["id_card"].entries # {}
    /\ Cardinality(zip["id_card"].entries) >= 4
    /\ \E e \in zip["id_card"].entries : e.data.part = "full"

\* The records of a pass that no item handler caught an exception for.
Failed(stages) == {f.doc : f \in {g \in failed : g.stage \in stages}}
Unfailed(t) == Elems(selected[t]) \ Failed({"probe", "download", "open", "write"})

\* Record d, fetched whole, is in what the mode produces for type t.
InOutput(d, t) ==
    IF options.mode.zip
    THEN \E e \in zip[t].entries : e.data = Full(d)
    ELSE /\ \E f \in folder[t].files : f.data = Full(d)
         /\ options.mode.zip_with_folder => \E e \in zip[t].entries : e.data = Full(d)

\* The run has returned, and neither an interrupt, nor an error of the
\* archive step, nor a refused --limit, nor a refused date has ended it.
Finished == pc = "done" /\ raised \in {"none", "item"}

\* What C3 says of every pass but for the report of completion: the pass
\* ran, every record of it was probed, every record that did not fail is in
\* the output, and every failure was logged as an error naming the record.
BatchGoesOn(t) ==
    /\ Processing(t)
    /\ probed[t] = selected[t]
    /\ \A d \in Unfailed(t) : InOutput(d, t)
    /\ \A f \in failed :
          \E m \in log : m.style = "ERROR" /\ m.doc = f.doc /\ m.dtype = UserDocuments[f.doc].type

\* C3 as stated: a size-probe or download failure of an item never aborts the
\* batch: in every mode the other items are probed, downloaded and in the
\* final output, the failure is logged, the following type pass runs, and
\* a pass in which an item failed still reports completion.
C3_FailingPassReportsCompletion ==
    Finished =>
        \A t \in Requested :
            /\ BatchGoesOn(t)
            /\ (Elems(selected[t]) \cap Failed({"probe", "download", "open"}) # {}) => Complete(t)

\* C3 as amended: as above, but the pass reports completion when at least
\* one of its items was probed successfully; when the probe of every item
\* failed it reports that there are no valid files instead.
C3_ItemFailureDoesNotAbort ==
    Finished =>
        \A t \in Requested :
            /\ BatchGoesOn(t)
            /\ (Elems(selected[t]) \ Failed({"probe"}) # {}) => Complete(t)
            /\ (Elems(selected[t]) \ Failed({"probe"}) = {}) => (NoValid(t) /\ ~Complete(t))

\* C3's case: a run over both types has finished in which one record failed
\* its probe, another its download, a third came through, and the second
\* pass delivered its records.
C3_Witness ==
    /\ Finished
    /\ options.type = "both"
    /\ \E f, g \in failed :
          /\ f.stage = "probe" /\ g.stage = "download"
          /\ UserDocuments[f.doc].type = "id_card" /\ UserDocuments[g.doc].type = "id_card"
    /\ Unfailed("id_card") # {}
    /\ Complete("id_card")
    /\ Complete("selfie")
    /\ Unfailed("selfie") # {}

\* C4: a failure to write one file into the archive is a per-item error in
\* every mode that builds a zip: it is logged, the run goes on to the
\* remaining files and to the following type pass, and ends without a
\* top-level error.
C4_ArchiveWriteIsPerItem ==
    (pc = "done" /\ raised \notin {"interrupt", "limit", "date"}) =>
        /\ \A t \in Requested : Processing(t) /\ (Complete(t) \/ NoValid(t))
        /\ HandleMsg("Exception") \notin log

\* The calendar day of a record and of a date argument.
DayOf(d) == DayNumber(UserDocuments[d].date)
InDateRange(d) ==
    /\ StrTruthy(options.start_date) => DayOf(d) >= DayNumber(options.start_date.fields)
    /\ StrTruthy(options.end_date) => DayOf(d) <= DayNumber(options.end_date.fields)

\* The probe loop of the pass of type t has run to its end.
ProbedAll(t) == Said("SUCCESS", "started", t) \/ NoValid(t)

\* C6: start_date and end_date are inclusive calendar-date bounds: without a
\* limit, a pass selects exactly the records of its type (with a file) whose
\* creation day is on or after start_date and on or before end_date, at
\* whatever time of the day; with start_date after end_date it selects
\* nothing and reports that there are no files.
C6_InclusiveCalendarDates ==
    \A t \in DocTypes :
        (~options.limit.given /\ ProbedAll(t)) =>
            /\ Elems(selected[t]) =
                  {d \in DocIds : /\ UserDocuments[d].type = t
                                  /\ UserDocuments[d].has_file
                                  /\ InDateRange(d)}
            /\ (/\ StrTruthy(options.start_date) /\ StrTruthy(options.end_date)
                /\ DayNumber(options.start_date.fields) > DayNumber(options.end_date.fields))
                  => (selected[t] = <<>> /\ NoValid(t))

\* The records of type t that match the filters of the run.
Matching(t) == {d \in DocIds : Matches(d, t, filters)}

\* With N records to take of more than N matching ones, the pass probes
\* exactly N records, in ascending order of creation, none of them created
\* after a matching record it leaves out.
TakesEarliest(t, N) ==
    Cardinality(Matching(t)) > N =>
        /\ Len(probed[t]) = N
        /\ Elems(probed[t]) \subseteq Matching(t)
        /\ Cardinality(Elems(probed[t])) = N
        /\ \A i, j \in DOMAIN probed[t] :
              i < j => created_date(probed[t][i]) <= created_date(probed[t][j])
        /\ \A d \in Elems(probed[t]), m \in Matching(t) \ Elems(probed[t]) :
              created_date(d) <= created_date(m)

\* C7 as stated: for limit = N (any count N >= 0) and more than N matching
\* records, a pass processes exactly the N earliest, in ascending order;
\* with 'both' each pass separately.
C7_LimitAnyCount ==
    \A t \in DocTypes :
        (options.limit.given /\ options.limit.n >= 0 /\ ProbedAll(t)) =>
            TakesEarliest(t, options.limit.n)

\* C7 as amended: the same for a positive limit N.
C7_LimitPositive ==
    \A t \in DocTypes :
        (options.limit.given /\ options.limit.n >= 1 /\ ProbedAll(t)) =>
            TakesEarliest(t, options.limit.n)

\* C7's case: with limit 1 and type 'both', the id_card pass has probed the
\* earliest of three records and the selfie pass the earlier of two.
C7_Witness ==
    /\ options.limit = Int1(1)
    /\ options.type = "both"
    /\ ProbedAll("id_card") /\ ProbedAll("selfie")
    /\ Cardinality(Matching("id_card")) = 3
    /\ Cardinality(Matching("selfie")) = 2
    /\ probed = [t \in DocTypes |-> IF t = "id_card" THEN <<1>> ELSE <<5>>]

\* Nothing remote has been contacted and nothing local created: no storage
\* client, no pass announced or queried, no probe, no download, and the
\* Desktop as it was.
NothingTouched ==
    /\ ~s3
    /\ \A t \in DocTypes :
          /\ ~Processing(t)
          /\ selected[t] = <<>> /\ probed[t] = <<>> /\ fetched[t] = <<>>
    /\ folder = folder0
    /\ zip = zip0

\* The run stops at the date check with an error message.
AbortsOnDates ==
    /\ pc \in {"parse", "done"}
    /\ NothingTouched
    /\ pc = "done" => Msg("ERROR", "invalid_date", "-", 0) \in log

\* C8 as stated: a start_date or end_date string that is no YYYY-MM-DD date
\* (either one, whatever the other is) aborts the run with an error before
\* any remote service is contacted and before any folder or zip is created.
C8_AnyMalformedDateAborts ==
    (\/ options.start_date.given /\ ~StrptimeOk(options.start_date.fields)
     \/ options.end_date.given /\ ~StrptimeOk(options.end_date.fields))
        => AbortsOnDates

\* C8 as amended: the same for a malformed string that is not empty (an
\* empty start_date or end_date is taken as absent).
C8_MalformedDateAborts ==
    (\/ StrTruthy(options.start_date) /\ ~StrptimeOk(options.start_date.fields)
     \/ StrTruthy(options.end_date) /\ ~StrptimeOk(options.end_date.fields))
        => AbortsOnDates

\* C8's case: a run with a good start_date and a malformed end_date has
\* ended with the error.
C8_Witness ==
    /\ pc = "done"
    /\ options.start_date = Str(Jan2)
    /\ options.end_date = Str(<<2024, 2, 30>>)
    /\ Msg("ERROR", "invalid_date", "-", 0) \in log

\* An interrupted run: stopped, the meter and the archive closed, the
\* warning written and no error message; and no item handler has ever
\* caught an interrupt.
C9_Interrupted ==
    /\ \A f \in failed : f.exc # "KeyboardInterrupt"
    /\ raised = "interrupt" =>
          /\ pc = "done"
          /\ HandleMsg("KeyboardInterrupt") \in log
          /\ HandleMsg("KeyboardInterrupt").style = "WARNING"
          /\ HandleMsg("Exception") \notin log
          /\ pbar.state # "open"
          /\ zipf = "none"

\* The step that delivers the interrupt keeps every file and every archive
\* entry written so far and starts nothing; no step follows it.
C9_Step ==
    /\ raised # "interrupt"
    /\ raised' = "interrupt" =>
          /\ \A t \in DocTypes :
                /\ folder[t].files \subseteq folder'[t].files
                /\ zip[t].entries \subseteq zip'[t].entries
          /\ log' = log \cup {HandleMsg("KeyboardInterrupt")}
          /\ pass' = pass
          /\ s3_keys' = s3_keys

\* C9: an interrupt delivered while probing, downloading or archiving is not
\* swallowed by the per-item handlers: the run stops at once (no further
\* probe or download, no later pass), the progress meter and any open
\* archive are closed, a warning and no error is reported, and what was
\* written before stays as it is.
C9_InterruptStopsRun == [](C9_Interrupted) /\ [][C9_Step]_vars

\* C9's case: an interrupt has ended a run with entries already written to an
\* archive that was open, leaving the second pass unstarted.
C9_Witness ==
    /\ raised = "interrupt"
    /\ options.type = "both"
    /\ ~Processing("selfie")
    /\ pbar.state = "closed"
    /\ \E e \in zip["id_card"].entries : e.data.part = "full"
    /\ Len(fetched["id_card"]) >= 2

\* C10: an item whose download fails leaves nothing in the output: no file
\* of it in the destination folder, no entry of it in the archive; so a
\* finished pass has added as many files (folder mode) or entries (zip-only
\* mode, no write having failed) as it had successful downloads.
C10_FailedDownloadLeavesNothing ==
    /\ \A t \in DocTypes : \A d \in Failed({"download", "open"}) :
          /\ \A f \in folder[t].files : f.data.doc # d
          /\ \A e \in zip[t].entries : e.data.doc # d
    /\ \A t \in DocTypes :
          (Complete(t) /\ Failed({"write"}) = {}) =>
              Cardinality(IF options.mode.zip THEN zip[t].entries
                          ELSE folder[t].files \ folder0[t].files)
                  = Cardinality(Elems(fetched[t]) \ Failed({"download"}))

====
